---- MODULE Spec2Model ----
(***************************************************************************)
(* Client-side SASL/SCRAM authentication of the Kafka client               *)
(* (src/v/kafka/client/sasl_client.cc).                                    *)
(*                                                                         *)
(* One authentication attempt on one connection: do_sasl_handshake, then   *)
(* do_authenticate_scram<ScramAlgo>.  Every co_await broker->dispatch(..)  *)
(* splits a coroutine in two steps: the step that sends the request and    *)
(* the step that resumes with the broker's answer.  The broker is the      *)
(* environment: its answers are drawn from bounded sets.                   *)
(*                                                                         *)
(* Strings that the code inspects (nonces) are sequences of characters.    *)
(* Wire payloads are attribute lists (the order of the keys plus the value *)
(* of each attribute).  The hash primitives are free constructors: two     *)
(* digests are equal exactly when they were computed from the same inputs. *)
(***************************************************************************)
EXTENDS Integers, Sequences, FiniteSets, TLC

\* ---------------------------------------------------------------- bounds
\* length of the client nonce (gen_alphanum_string(130) in the code)
NonceLen == 2
\* how many characters a broker may append to (or use instead of) the nonce
MaxExtra == 1

\* ---------------------------------------------------------------- inputs
Alphabet == {"a", "b"}
Users == {"alice"}
Passwords == {"pencil", "wrong"}
BrokerIds == {0, 1}
Mechanisms == {"SCRAM-SHA-256", "SCRAM-SHA-512"}
Salts == {"QSXCR", "W22Za"}
ErrorTexts == {"invalid-proof", "other-error"}
ErrorMessages == {"denied"}
IterationTexts == {"1", "4095", "4096", "4097", "x"}

\* error_code values the code names or merely passes on
none == "none"
sasl_authentication_failed == "sasl_authentication_failed"
illegal_sasl_state == "illegal_sasl_state"
unsupported_sasl_mechanism == "unsupported_sasl_mechanism"
ErrorCodes == {none, sasl_authentication_failed, illegal_sasl_state,
               unsupported_sasl_mechanism}

\* sequences over S of length exactly n / at most n
SeqsOfLen(S, n) == [1..n -> S]
SeqsUpTo(S, n) == UNION {SeqsOfLen(S, k) : k \in 0..n}

\* std::string_view::starts_with
starts_with(s, p) ==
    /\ Len(p) <= Len(s)
    /\ \A k \in 1..Len(p) : s[k] = p[k]

\* ------------------------------------------------- random_generators
\* gen_alphanum_string(n): any string of n characters of the alphabet
gen_alphanum_string(n) == SeqsOfLen(Alphabet, n)

\* ------------------------------------------------- optional values
\* std::optional<T>: the empty sequence, or a sequence holding the value
nullopt == << >>
some(x) == << x >>
has_value(o) == Len(o) > 0
value(o) == o[1]
value_or(o, d) == IF has_value(o) THEN o[1] ELSE d

\* ------------------------------------------------- message codec
\* A wire payload as the codec sees it: the keys of its comma-separated
\* attributes in order, and the text of each attribute that can occur.
Payload(keys, r, s, i, e, v) ==
    [keys |-> keys, r |-> r, s |-> s, i |-> i, e |-> e, v |-> v]

\* the decimal texts the model's brokers send, and the integers they denote
IterationValue ==
    [t \in {"1", "4095", "4096", "4097"} |->
        CASE t = "1" -> 1
          [] t = "4095" -> 4095
          [] t = "4096" -> 4096
          [] t = "4097" -> 4097]
is_numeric(t) == t \in DOMAIN IterationValue
parse_int(t) == IterationValue[t]

\* base64 of the gs2 header / channel binding ("n,," encodes to "biws")
base64_encode(b) == IF b = "n,," THEN "biws" ELSE "????"

\* security::client_first_message(username, nonce)
client_first_message(username, nonce) ==
    [username |-> username, nonce |-> nonce]
\* client-first bare: n=<username>,r=<nonce>
client_first_bare_message(cf) == [n |-> cf.username, r |-> cf.nonce]
\* client-first: n,,n=<username>,r=<nonce>
client_first_wire(cf) ==
    [gs2 |-> "n,,", bare |-> client_first_bare_message(cf)]

\* security::server_first_message(bytes): r=<nonce>,s=<salt>,i=<iterations>
server_first_parses(p) == p.keys = <<"r", "s", "i">> /\ is_numeric(p.i)
server_first_message(p) ==
    [nonce |-> p.r, salt |-> p.s, iterations |-> parse_int(p.i)]
\* the text of a decoded server-first message
server_first_wire(sf) == [r |-> sf.nonce, s |-> sf.salt, i |-> sf.iterations]

\* security::client_final_message(channel_binding, nonce); proof unset
client_final_message(channel_binding, nonce) ==
    [channel_binding |-> channel_binding, nonce |-> nonce, proof |-> nullopt]
set_proof(cl, proof) == [cl EXCEPT !.proof = some(proof)]
\* client-final without proof: c=<base64 channel binding>,r=<nonce>
client_final_without_proof(cl) ==
    [c |-> base64_encode(cl.channel_binding), r |-> cl.nonce]
\* client-final: c=...,r=...,p=<proof>
client_final_wire(cl) ==
    [c |-> base64_encode(cl.channel_binding), r |-> cl.nonce, p |-> cl.proof]

\* a decoder that takes any payload for a server-final message
server_final_parses_lenient(p) == TRUE
\* security::server_final_message(bytes): e=<error text> or v=<signature>
server_final_parses(p) == p.keys = <<"e">> \/ p.keys = <<"v">>
server_final_message(p) ==
    IF p.keys = <<"e">>
    THEN [error |-> some(p.e), signature |-> << >>]
    ELSE [error |-> nullopt, signature |-> p.v]

\* ------------------------------------------------- algorithm policy
\* ScramAlgo::min_iterations of scram_sha256 / scram_sha512
min_iterations(algo) ==
    CASE algo = "SCRAM-SHA-256" -> 4096
      [] algo = "SCRAM-SHA-512" -> 4096

\* ScramAlgo::hi(password, salt, iterations): iterated salted HMAC
hi(algo, password, salt, iterations) ==
    [h |-> algo, password |-> password, salt |-> salt, iterations |-> iterations]

\* an auth message that takes the client-final message as it is, with the
\* proof once it is attached
auth_message_with_proof(client_first, server_first, client_final) ==
    [cfb |-> client_first_bare_message(client_first),
     sf |-> server_first_wire(server_first),
     clwp |-> [c |-> base64_encode(client_final.channel_binding),
               r |-> client_final.nonce, p |-> client_final.proof]]

\* client-first bare , server-first , client-final without proof
auth_message(client_first, server_first, client_final) ==
    [cfb |-> client_first_bare_message(client_first),
     sf |-> server_first_wire(server_first),
     clwp |-> client_final_without_proof(client_final)]

\* ScramAlgo::client_proof: ClientKey XOR HMAC(H(ClientKey), auth message)
client_proof(salted_password, client_first, server_first, client_final) ==
    [of |-> "Client Key", sp |-> salted_password,
     am |-> auth_message(client_first, server_first, client_final)]

\* ScramAlgo::server_key: HMAC(salted password, "Server Key")
server_key(salted_password) == [of |-> "Server Key", sp |-> salted_password]

\* ScramAlgo::server_signature: HMAC(server key, auth message); the bytes of
\* a signature are a sequence of digests
server_signature(key, client_first, server_first, client_final) ==
    << [key |-> key,
        am |-> auth_message(client_first, server_first, client_final)] >>

\* ------------------------------------------------- requests, responses
sasl_handshake_request(mechanism) ==
    [api |-> "sasl_handshake", mechanism |-> mechanism, auth_bytes |-> nullopt]
sasl_authenticate_request(auth_bytes) ==
    [api |-> "sasl_authenticate", mechanism |-> "", auth_bytes |-> some(auth_bytes)]

EmptyPayload == Payload(<< >>, << >>, "", "", "", << >>)

\* what one broker->dispatch(req) gives back: a response, or (returned
\* FALSE) an exception of the transport
Response(code, msg, payload) ==
    [returned |-> TRUE, error_code |-> code, error_message |-> msg,
     auth_bytes |-> payload]
DispatchFailure ==
    [returned |-> FALSE, error_code |-> none, error_message |-> nullopt,
     auth_bytes |-> EmptyPayload]

\* ------------------------------------------------- exceptions
\* broker_error{id, error_code} and broker_error{id, error_code, message}
broker_error2(id, code) ==
    [type |-> "broker_error", id |-> some(id), code |-> code, msg |-> nullopt]
broker_error3(id, code, msg) ==
    [type |-> "broker_error", id |-> some(id), code |-> code, msg |-> some(msg)]
\* what a failed dispatch throws; the code passes it on untouched
dispatch_exception ==
    [type |-> "dispatch_exception", id |-> nullopt, code |-> none, msg |-> nullopt]
\* what the constructor of a message throws on a payload it cannot parse
scram_exception ==
    [type |-> "scram_exception", id |-> nullopt, code |-> none, msg |-> nullopt]

\* fmt: "Server minimum iterations {} < required {}"
weak_iterations_message(iterations, required) ==
    "Server minimum iterations " \o ToString(iterations)
        \o " < required " \o ToString(required)

\* ------------------------------------------------- state
VARIABLES
    pc,              \* where the attempt stands
    mechanism,       \* the SCRAM variant of the attempt (ScramAlgo)
    username,        \* credentials of the attempt
    password,
    broker_id,       \* broker->id()
    nonce,           \* the client nonce, << >> before it is generated
    requests,        \* every request handed to broker->dispatch, in order
    responses,       \* every result a dispatch gave back, in order
    server_first,    \* the decoded server-first message, if any
    client_final,    \* the client-final message, if built
    salted_password, \* the result of ScramAlgo::hi, if computed
    server_final,    \* the decoded server-final message, if any
    error,           \* the exception the attempt ended with, if any
    throw_line,      \* the line of sasl_client.cc that threw it, else 0
    hi_runs,         \* how often ScramAlgo::hi ran
    decode_runs,     \* how often a response payload was handed to the codec
    verify_runs,     \* how often ScramAlgo::server_signature ran
    parked           \* the suspended flow of another connection, if any

vars == <<pc, mechanism, username, password, broker_id, nonce, requests,
          responses, server_first, client_final, salted_password,
          server_final, error, throw_line, hi_runs, decode_runs, verify_runs,
          parked>>

locals == <<server_first, client_final, salted_password, server_final>>
counters == <<hi_runs, decode_runs, verify_runs>>
credentials == <<mechanism, username, password, broker_id>>

Init ==
    /\ pc = "Start"
    /\ mechanism \in Mechanisms
    /\ username \in Users
    /\ password \in Passwords
    /\ broker_id \in BrokerIds
    /\ nonce = << >>
    /\ requests = << >>
    /\ responses = << >>
    /\ server_first = nullopt
    /\ client_final = nullopt
    /\ salted_password = nullopt
    /\ server_final = nullopt
    /\ error = nullopt
    /\ throw_line = 0
    /\ hi_runs = 0
    /\ decode_runs = 0
    /\ verify_runs = 0
    /\ parked = nullopt

\* an exception that is caught and recorded while the flow stays where it is
Throw_and_stay(line, e) ==
    /\ pc' = pc
    /\ error' = some(e)
    /\ throw_line' = line

\* throw e at the given line: the coroutine ends with the exception
Throw(line, e) ==
    /\ pc' = "Failed"
    /\ error' = some(e)
    /\ throw_line' = line

\* the client-first message of the attempt (const in do_authenticate_scram)
client_first == client_first_message(username, nonce)

\* ------------------------------------------------- the broker
\* An RFC 5802 server that holds the account's password, computed from what
\* it received and sent on the wire.
RefAuthMessage(first_wire, sf_payload, final_wire) ==
    [cfb |-> first_wire.bare,
     sf |-> [r |-> sf_payload.r, s |-> sf_payload.s, i |-> parse_int(sf_payload.i)],
     clwp |-> [c |-> final_wire.c, r |-> final_wire.r]]
RefSaltedPassword(algo, pw, sf_payload) ==
    [h |-> algo, password |-> pw, salt |-> sf_payload.s,
     iterations |-> parse_int(sf_payload.i)]
RefClientProof(algo, pw, first_wire, sf_payload, final_wire) ==
    [of |-> "Client Key", sp |-> RefSaltedPassword(algo, pw, sf_payload),
     am |-> RefAuthMessage(first_wire, sf_payload, final_wire)]
RefServerSignature(algo, pw, first_wire, sf_payload, final_wire) ==
    << [key |-> [of |-> "Server Key", sp |-> RefSaltedPassword(algo, pw, sf_payload)],
        am |-> RefAuthMessage(first_wire, sf_payload, final_wire)] >>
\* the server accepts a client-final that echoes its nonce, binds no channel
\* and proves the password; it answers v=<signature>, else e=<error>
RefServerFinal(algo, pw, first_wire, sf_payload, final_wire) ==
    IF /\ final_wire.r = sf_payload.r
       /\ final_wire.c = "biws"
       /\ final_wire.p = some(RefClientProof(algo, pw, first_wire, sf_payload, final_wire))
    THEN Payload(<<"v">>, << >>, "", "", "",
                 RefServerSignature(algo, pw, first_wire, sf_payload, final_wire))
    ELSE Payload(<<"e">>, << >>, "", "", "invalid-proof", << >>)

\* a server-first payload of a server that cooperates with a client whose
\* client-first carried nonce n and whose policy floor is m
IsRefServerFirst(p, n, m) ==
    /\ p.keys = <<"r", "s", "i">>
    /\ starts_with(p.r, n)
    /\ p.s \in Salts
    /\ is_numeric(p.i)
    /\ parse_int(p.i) >= m

HandshakeResults ==
    {DispatchFailure} \cup
    {Response(c, nullopt, EmptyPayload) :
        c \in {none, unsupported_sasl_mechanism, illegal_sasl_state}}

\* With two flows under way the broker's answers are drawn from smaller
\* sets: the answers that matter to the flow itself and the nonce of the
\* other flow.
crowded == has_value(parked)
EnvSalts == IF crowded THEN {"QSXCR"} ELSE Salts
EnvIterationTexts == IF crowded THEN {"4095", "4096"} ELSE IterationTexts
EnvErrorTexts == IF crowded THEN {"invalid-proof"} ELSE ErrorTexts

AuthenticateCodes ==
    IF crowded THEN {none, illegal_sasl_state}
    ELSE {none, sasl_authentication_failed, illegal_sasl_state}
AuthenticateMessages ==
    IF crowded THEN {nullopt}
    ELSE {nullopt} \cup {some(m) : m \in ErrorMessages}

ServerNonces ==
    IF crowded
    THEN {nonce \o x : x \in SeqsUpTo(Alphabet, MaxExtra)}
            \cup {value(parked).nonce}
    ELSE SeqsUpTo(Alphabet, NonceLen + MaxExtra)

ServerFirstPayloads ==
    {Payload(<<"r", "s", "i">>, r, s, i, "", << >>) :
        r \in ServerNonces, s \in EnvSalts, i \in EnvIterationTexts}
    \cup {Payload(<<"r", "s">>, r, s, "", "", << >>) :
        r \in ServerNonces, s \in EnvSalts}
    \cup {Payload(<<"e">>, << >>, "", "", e, << >>) : e \in EnvErrorTexts}

ServerFirstResults ==
    {DispatchFailure} \cup
    {Response(c, m, p) :
        c \in AuthenticateCodes, m \in AuthenticateMessages,
        p \in ServerFirstPayloads}

\* the signatures a broker may send back: the reference one for either
\* password and either salt, a lengthened one, an empty one
ServerSignatures(first_wire, sf_payload, final_wire) ==
    LET sigs == {RefServerSignature(mechanism, pw,
                     first_wire, [sf_payload EXCEPT !.s = s], final_wire) :
                     pw \in Passwords, s \in EnvSalts}
    IN  sigs \cup {g \o g : g \in sigs} \cup {<< >>}

ServerFinalPayloads(first_wire, sf_payload, final_wire) ==
    {RefServerFinal(mechanism, password, first_wire, sf_payload, final_wire)}
    \cup {Payload(<<"v">>, << >>, "", "", "", g) :
            g \in ServerSignatures(first_wire, sf_payload, final_wire)}
    \cup {Payload(<<"e">>, << >>, "", "", e, << >>) : e \in EnvErrorTexts}
    \cup {Payload(<<"r", "s", "i">>, sf_payload.r, sf_payload.s, sf_payload.i,
                  "", << >>)}

ServerFinalResults(first_wire, sf_payload, final_wire) ==
    {DispatchFailure} \cup
    {Response(c, m, p) :
        c \in AuthenticateCodes, m \in AuthenticateMessages,
        p \in ServerFinalPayloads(first_wire, sf_payload, final_wire)}

\* ------------------------------------------------- do_sasl_handshake
\* a handshake that never looks at the error code
handshake_rejected_ignored(resp) == FALSE
handshake_rejected(resp) == resp.error_code # none

\* lines 20-22: the exception of a rejected handshake
handshake_error(id, resp) == broker_error2(id, resp.error_code)

\* lines 16-19: build the request naming the mechanism and dispatch it
do_sasl_handshake_send ==
    /\ pc = "Start"
    /\ requests' = Append(requests, sasl_handshake_request(mechanism))
    /\ pc' = "AwaitingHandshake"
    /\ UNCHANGED <<parked, credentials, nonce, responses, locals, error, throw_line,
                   counters>>

\* a handshake that, once rejected, sends its request a second time
do_sasl_handshake_resume_retry ==
    /\ pc = "AwaitingHandshake"
    /\ \E resp \in HandshakeResults :
        /\ responses' = Append(responses, resp)
        /\ IF ~resp.returned
           THEN Throw(19, dispatch_exception) /\ UNCHANGED requests
           ELSE IF handshake_rejected(resp)
           THEN IF Len(requests) < 2
                THEN /\ requests' = Append(requests,
                            sasl_handshake_request(mechanism))
                     /\ UNCHANGED <<pc, error, throw_line>>
                ELSE /\ Throw(21, handshake_error(broker_id, resp))
                     /\ UNCHANGED requests
           ELSE pc' = "HandshakeDone" /\ UNCHANGED <<requests, error, throw_line>>
    /\ UNCHANGED <<parked, credentials, nonce, locals, counters>>

\* a handshake that is never resumed once its dispatch has failed
do_sasl_handshake_resume_hang ==
    /\ pc = "AwaitingHandshake"
    /\ \E resp \in HandshakeResults :
        /\ responses' = Append(responses, resp)
        /\ IF ~resp.returned
           THEN pc' = "Hung" /\ UNCHANGED <<error, throw_line>>
           ELSE IF handshake_rejected(resp)
           THEN Throw(21, handshake_error(broker_id, resp))
           ELSE pc' = "HandshakeDone" /\ UNCHANGED <<error, throw_line>>
    /\ UNCHANGED <<parked, credentials, nonce, requests, locals, counters>>

\* lines 19-23: the dispatch returns; a non-success code is thrown
do_sasl_handshake_resume ==
    /\ pc = "AwaitingHandshake"
    /\ \E resp \in HandshakeResults :
        /\ responses' = Append(responses, resp)
        /\ IF ~resp.returned
           THEN Throw(19, dispatch_exception)
           ELSE IF handshake_rejected(resp)
           THEN Throw(21, handshake_error(broker_id, resp))
           ELSE pc' = "HandshakeDone" /\ UNCHANGED <<error, throw_line>>
    /\ UNCHANGED <<parked, credentials, nonce, requests, locals, counters>>

\* the caller runs do_authenticate_scram once do_sasl_handshake has returned
handshake_completed == pc = "HandshakeDone"

\* ------------------------------------------------- do_authenticate_scram
\* envelope checks that let every response through
client_first_rejected_ignored(resp) == FALSE
client_final_rejected_ignored(resp) == FALSE
client_first_rejected(resp) == resp.error_code # none
client_final_rejected(resp) == resp.error_code # none
\* a check that only looks at the length of the server nonce
nonce_mismatch_length_only(sf, n) == Len(sf.nonce) < Len(n)
nonce_mismatch(sf, n) == ~starts_with(sf.nonce, n)
\* a floor check that only the SHA-256 variant performs
weak_iterations_sha256_only(algo, sf) ==
    algo = "SCRAM-SHA-256" /\ sf.iterations < min_iterations(algo)
\* a flow without the floor check
weak_iterations_unchecked(algo, sf) == FALSE
\* a floor check that also rejects the minimum itself
weak_iterations_inclusive(algo, sf) == sf.iterations <= min_iterations(algo)
weak_iterations(algo, sf) == sf.iterations < min_iterations(algo)
\* a comparison that only looks at the length of the signature
signature_mismatch_length_only(sfin, sig) == Len(sfin.signature) # Len(sig)
signature_mismatch(sfin, sig) == sfin.signature # sig

\* lines 35-38 and 55-58: the exception of a rejected authenticate request
client_first_error(id, resp) ==
    broker_error3(id, resp.error_code,
                  value_or(resp.error_message, "<no error message>"))
client_final_error(id, resp) ==
    broker_error3(id, resp.error_code,
                  value_or(resp.error_message, "<no error message>"))
\* lines 82-85
nonce_mismatch_error(id) ==
    broker_error3(id, sasl_authentication_failed,
                  "Server nonce doesn't match client nonce")
\* lines 89-96
weak_iterations_error(id, algo, sf) ==
    broker_error3(id, sasl_authentication_failed,
                  weak_iterations_message(sf.iterations, min_iterations(algo)))
\* an exception that drops the text the server sent
server_final_error_generic(id, sfin) ==
    broker_error3(id, sasl_authentication_failed, "Authentication failed")
\* lines 120-123
server_final_error(id, sfin) ==
    broker_error3(id, sasl_authentication_failed, value(sfin.error))
\* lines 131-134
signature_mismatch_error(id) ==
    broker_error3(id, sasl_authentication_failed,
                  "Server signature does not match calculated signature")

\* a validation that looks at the iteration count first
server_first_check_floor_first(algo, sf, n) ==
    IF weak_iterations(algo, sf) THEN 89
    ELSE IF nonce_mismatch(sf, n) THEN 82
    ELSE 0

\* lines 80-97: the line of the check the server-first message fails, the
\* nonce prefix first and the iteration floor second; 0 if it passes both
server_first_check(algo, sf, n) ==
    IF nonce_mismatch(sf, n) THEN 82
    ELSE IF weak_iterations(algo, sf) THEN 89
    ELSE 0

\* an error attribute that is never looked at
server_final_has_error_ignored(sfin) == FALSE
\* line 119: the server-final message carries an error
server_final_has_error(sfin) == has_value(sfin.error)

\* lines 71-72 and 28-33: fresh nonce, client-first message, dispatch
send_scram_client_first ==
    /\ handshake_completed
    /\ \E n \in gen_alphanum_string(NonceLen) :
        /\ nonce' = n
        /\ requests' = Append(requests, sasl_authenticate_request(
               client_first_wire(client_first_message(username, n))))
    /\ pc' = "AwaitingServerFirst"
    /\ UNCHANGED <<parked, credentials, responses, locals, error, throw_line, counters>>

\* a client-final message whose nonce is the client nonce followed by the
\* nonce of the server-first message
build_client_final_prefixed(sp, cf, sf) ==
    LET cl == client_final_message("n,,", cf.nonce \o sf.nonce)
    IN  set_proof(cl, client_proof(sp, cf, sf, cl))

\* lines 102-111: the client-final message with its proof attached
build_client_final(sp, cf, sf) ==
    LET cl == client_final_message("n,,", sf.nonce)
    IN  set_proof(cl, client_proof(sp, cf, sf, cl))

\* lines 33-40 and 77-114: the server-first response is checked, then the
\* salted password is derived and the client-final message dispatched
handle_server_first ==
    /\ pc = "AwaitingServerFirst"
    /\ \E resp \in ServerFirstResults :
        /\ responses' = Append(responses, resp)
        /\ IF ~resp.returned
           THEN /\ Throw(33, dispatch_exception)
                /\ UNCHANGED <<requests, locals, counters>>
           ELSE IF client_first_rejected(resp)
           THEN /\ Throw(35, client_first_error(broker_id, resp))
                /\ UNCHANGED <<requests, locals, counters>>
           ELSE IF ~server_first_parses(resp.auth_bytes)
           THEN /\ Throw(40, scram_exception)
                /\ decode_runs' = decode_runs + 1
                /\ UNCHANGED <<requests, locals, hi_runs, verify_runs>>
           ELSE LET sf == server_first_message(resp.auth_bytes) IN
                /\ decode_runs' = decode_runs + 1
                /\ server_first' = some(sf)
                /\ IF server_first_check(mechanism, sf, nonce) = 82
                   THEN /\ Throw(82, nonce_mismatch_error(broker_id))
                        /\ UNCHANGED <<requests, client_final, salted_password,
                                       server_final, hi_runs, verify_runs>>
                   ELSE IF server_first_check(mechanism, sf, nonce) = 89
                   THEN /\ Throw(89, weak_iterations_error(broker_id, mechanism, sf))
                        /\ UNCHANGED <<requests, client_final, salted_password,
                                       server_final, hi_runs, verify_runs>>
                   ELSE LET sp == hi(mechanism, password, sf.salt, sf.iterations)
                            cl == build_client_final(sp, client_first, sf)
                        IN  /\ salted_password' = some(sp)
                            /\ hi_runs' = hi_runs + 1
                            /\ client_final' = some(cl)
                            /\ requests' = Append(requests,
                                   sasl_authenticate_request(client_final_wire(cl)))
                            /\ pc' = "AwaitingServerFinal"
                            /\ UNCHANGED <<server_final, error, throw_line,
                                           verify_runs>>
    /\ UNCHANGED <<parked, credentials, nonce>>

\* lines 52-62 and 113-135: the server-final response is checked and the
\* server's signature compared with the one computed here
handle_server_final ==
    /\ pc = "AwaitingServerFinal"
    /\ \E resp \in ServerFinalResults(
                       value(requests[Len(requests) - 1].auth_bytes),
                       responses[Len(responses)].auth_bytes,
                       value(requests[Len(requests)].auth_bytes)) :
        /\ responses' = Append(responses, resp)
        /\ IF ~resp.returned
           THEN /\ Throw(52, dispatch_exception)
                /\ UNCHANGED <<server_final, counters>>
           ELSE IF client_final_rejected(resp)
           THEN /\ Throw(55, client_final_error(broker_id, resp))
                /\ UNCHANGED <<server_final, counters>>
           ELSE IF ~server_final_parses(resp.auth_bytes)
           THEN /\ Throw(61, scram_exception)
                /\ decode_runs' = decode_runs + 1
                /\ UNCHANGED <<server_final, hi_runs, verify_runs>>
           ELSE LET sfin == server_final_message(resp.auth_bytes) IN
                /\ decode_runs' = decode_runs + 1
                /\ server_final' = some(sfin)
                /\ IF server_final_has_error(sfin)
                   THEN /\ Throw(120, server_final_error(broker_id, sfin))
                        /\ UNCHANGED <<hi_runs, verify_runs>>
                   ELSE LET key == server_key(value(salted_password))
                            sig == server_signature(key, client_first,
                                       value(server_first), value(client_final))
                        IN  /\ verify_runs' = verify_runs + 1
                            /\ UNCHANGED hi_runs
                            /\ IF signature_mismatch(sfin, sig)
                               THEN Throw(131, signature_mismatch_error(broker_id))
                               ELSE /\ pc' = "Authenticated"
                                    /\ UNCHANGED <<error, throw_line>>
    /\ UNCHANGED <<parked, credentials, nonce, requests, server_first, client_final,
                   salted_password>>

\* ------------------------------------------------- two connections
\* Everything a flow holds lives in its coroutine frame and its own broker
\* connection: the arguments, the locals of do_authenticate_scram
\* (lines 71-72, 77, 102, 105, 113) and the exchange with its broker.
Frame ==
    [pc |-> pc, mechanism |-> mechanism, username |-> username,
     password |-> password, broker_id |-> broker_id, nonce |-> nonce,
     requests |-> requests, responses |-> responses,
     server_first |-> server_first, client_final |-> client_final,
     salted_password |-> salted_password, server_final |-> server_final,
     error |-> error, throw_line |-> throw_line, hi_runs |-> hi_runs,
     decode_runs |-> decode_runs, verify_runs |-> verify_runs]

\* a frame before anything has run
StartFrame(m, u, pw, id) ==
    [pc |-> "Start", mechanism |-> m, username |-> u, password |-> pw,
     broker_id |-> id, nonce |-> << >>, requests |-> << >>,
     responses |-> << >>, server_first |-> nullopt, client_final |-> nullopt,
     salted_password |-> nullopt, server_final |-> nullopt, error |-> nullopt,
     throw_line |-> 0, hi_runs |-> 0, decode_runs |-> 0, verify_runs |-> 0]

\* a resumption that finds the nonce of the flow that ran last, as if the
\* nonce were one variable shared by all flows
switch_shared_nonce ==
    /\ has_value(parked)
    /\ LET f == value(parked) IN
        /\ parked' = some(Frame)
        /\ pc' = f.pc
        /\ mechanism' = f.mechanism
        /\ username' = f.username
        /\ password' = f.password
        /\ broker_id' = f.broker_id
        /\ nonce' = nonce
        /\ requests' = f.requests
        /\ responses' = f.responses
        /\ server_first' = f.server_first
        /\ client_final' = f.client_final
        /\ salted_password' = f.salted_password
        /\ server_final' = f.server_final
        /\ error' = f.error
        /\ throw_line' = f.throw_line
        /\ hi_runs' = f.hi_runs
        /\ decode_runs' = f.decode_runs
        /\ verify_runs' = f.verify_runs

\* the reactor suspends the running flow at its co_await (lines 19, 33, 52)
\* or at its end and resumes the flow of the other connection
switch ==
    /\ has_value(parked)
    /\ LET f == value(parked) IN
        /\ parked' = some(Frame)
        /\ pc' = f.pc
        /\ mechanism' = f.mechanism
        /\ username' = f.username
        /\ password' = f.password
        /\ broker_id' = f.broker_id
        /\ nonce' = f.nonce
        /\ requests' = f.requests
        /\ responses' = f.responses
        /\ server_first' = f.server_first
        /\ client_final' = f.client_final
        /\ salted_password' = f.salted_password
        /\ server_final' = f.server_final
        /\ error' = f.error
        /\ throw_line' = f.throw_line
        /\ hi_runs' = f.hi_runs
        /\ decode_runs' = f.decode_runs
        /\ verify_runs' = f.verify_runs

Next ==
    \/ do_sasl_handshake_send
    \/ do_sasl_handshake_resume
    \/ send_scram_client_first
    \/ handle_server_first
    \/ handle_server_final

Spec == Init /\ [][Next]_vars

\* two attempts on two connections (brokers 0 and 1), with the same or with
\* different credentials and mechanism, interleaved at their co_awaits
InitTwoFlows ==
    /\ pc = "Start"
    /\ mechanism = "SCRAM-SHA-256"
    /\ username \in Users
    /\ password = "pencil"
    /\ broker_id = 0
    /\ nonce = << >>
    /\ requests = << >>
    /\ responses = << >>
    /\ server_first = nullopt
    /\ client_final = nullopt
    /\ salted_password = nullopt
    /\ server_final = nullopt
    /\ error = nullopt
    /\ throw_line = 0
    /\ hi_runs = 0
    /\ decode_runs = 0
    /\ verify_runs = 0
    /\ \E other \in {<<"SCRAM-SHA-256", "pencil">>, <<"SCRAM-SHA-512", "wrong">>} :
          parked = some(StartFrame(other[1], username, other[2], 1))

NextTwoFlows ==
    \/ do_sasl_handshake_send
    \/ do_sasl_handshake_resume
    \/ send_scram_client_first
    \/ handle_server_first
    \/ handle_server_final
    \/ switch

TwoFlows == InitTwoFlows /\ [][NextTwoFlows]_vars

\* every dispatch eventually returns a response or fails, and the reactor
\* then resumes the coroutine that awaits it
FairSpec == Spec /\ WF_vars(Next)

TypeOK ==
    /\ pc \in {"Start", "AwaitingHandshake", "HandshakeDone",
               "AwaitingServerFirst", "AwaitingServerFinal",
               "Authenticated", "Failed"}
    /\ Len(requests) \in 0..3
    /\ Len(responses) \in 0..3
    /\ throw_line \in {0, 19, 21, 33, 35, 40, 52, 55, 61, 82, 89, 120, 131}

\* ------------------------------------------------- the exchange as seen
\* on the wire (what the properties below are stated over)
HandshakeAnswered == Len(responses) >= 1 /\ responses[1].returned
FirstAnswered == Len(responses) >= 2 /\ responses[2].returned
FinalAnswered == Len(responses) >= 3 /\ responses[3].returned
SentClientFirst == value(requests[2].auth_bytes)
SentClientFinal == value(requests[3].auth_bytes)
SentNonce == SentClientFirst.bare.r
FirstPayload == responses[2].auth_bytes
FinalPayload == responses[3].auth_bytes
\* the response of a round is a SCRAM message: accepted by the envelope
\* check and parsed by the codec
FirstDecoded ==
    /\ FirstAnswered
    /\ responses[2].error_code = none
    /\ server_first_parses(FirstPayload)
FinalDecoded ==
    /\ FinalAnswered
    /\ responses[3].error_code = none
    /\ server_final_parses(FinalPayload)
\* the signature an RFC 5802 server holding the password would send
ExpectedSignature ==
    RefServerSignature(mechanism, password, SentClientFirst, FirstPayload,
                       SentClientFinal)
Finished == pc \in {"Authenticated", "Failed"}
ThrewAt(line, e) ==
    /\ pc = "Failed"
    /\ throw_line = line
    /\ error = some(e)
\* the failures of the attempt, as the exceptions that report them
AuthenticationFailed(text) ==
    [type |-> "broker_error", id |-> <<broker_id>>,
     code |-> sasl_authentication_failed, msg |-> <<text>>]
NonceMismatch == AuthenticationFailed("Server nonce doesn't match client nonce")
WeakIterationCount(iterations) ==
    AuthenticationFailed("Server minimum iterations " \o ToString(iterations)
        \o " < required " \o ToString(min_iterations(mechanism)))
ServerSignatureInvalid ==
    AuthenticationFailed("Server signature does not match calculated signature")

\* C1: an attempt ends as Authenticated only if both authenticate responses
\* carried error code none, the server-first nonce starts with the client
\* nonce that was sent, the server-first iteration count is at least the
\* policy's minimum, the server-final message carried no error attribute and
\* its signature equals the one computed from the salted password and the
\* exchanged messages.
C1_AuthenticatedOnlyIfValidated ==
    pc = "Authenticated" =>
        /\ FirstAnswered /\ responses[2].error_code = none
        /\ FinalAnswered /\ responses[3].error_code = none
        /\ starts_with(FirstPayload.r, SentNonce)
        /\ is_numeric(FirstPayload.i)
        /\ parse_int(FirstPayload.i) >= min_iterations(mechanism)
        /\ FinalPayload.keys # <<"e">>
        /\ FinalPayload.v = ExpectedSignature

C1_Witness ==
    /\ pc = "Authenticated"
    /\ Len(FirstPayload.r) > Len(SentNonce)
    /\ parse_int(FirstPayload.i) > min_iterations(mechanism)

\* C2: against a cooperating server (both authenticate requests answered
\* with error code none, a server-first nonce that starts with the client
\* nonce, an iteration count at least the minimum, and the reference server
\* signature for the password and the exchanged messages) the attempt ends
\* as Authenticated: it goes on after the first answer and is Authenticated
\* after the second.
CooperatingFirst ==
    /\ FirstAnswered
    /\ responses[2].error_code = none
    /\ IsRefServerFirst(FirstPayload, SentNonce, min_iterations(mechanism))
CooperatingFinal ==
    /\ FinalAnswered
    /\ responses[3].error_code = none
    /\ FinalPayload = RefServerFinal(mechanism, password, SentClientFirst,
                                     FirstPayload, SentClientFinal)
C2_CooperatingServerAuthenticates ==
    /\ (CooperatingFirst /\ Len(responses) = 2) => pc = "AwaitingServerFinal"
    /\ (CooperatingFirst /\ CooperatingFinal) => pc = "Authenticated"

C2_Witness ==
    /\ CooperatingFirst
    /\ CooperatingFinal
    /\ pc = "Authenticated"
    /\ Len(FirstPayload.r) > Len(SentNonce)

\* C3: if the server-first message carries a nonce that does not start with
\* the client nonce that was sent, the attempt fails with the nonce-mismatch
\* error, the salted password is never derived and no client-final request
\* is dispatched.
C3_NonceMismatchFailsBeforeDerivation ==
    (FirstDecoded /\ ~starts_with(FirstPayload.r, SentNonce)) =>
        /\ ThrewAt(82, NonceMismatch)
        /\ hi_runs = 0
        /\ salted_password = nullopt
        /\ Len(requests) = 2

C3_Witness ==
    /\ FirstDecoded
    /\ Len(FirstPayload.r) >= Len(SentNonce)
    /\ ~starts_with(FirstPayload.r, SentNonce)
    /\ pc = "Failed"

\* the decoded server-first message as the wire carried it
FirstMessage == server_first_message(FirstPayload)
FirstNonceOk == starts_with(FirstPayload.r, SentNonce)

\* C4 as stated: whenever the server-first iteration count is below the
\* policy's minimum the attempt fails with the weak-iteration error, without
\* derivation and without a client-final request; a count equal to the
\* minimum is accepted.
C4_Original ==
    /\ (FirstDecoded /\ FirstMessage.iterations < min_iterations(mechanism)) =>
        /\ ThrewAt(89, WeakIterationCount(parse_int(FirstPayload.i)))
        /\ hi_runs = 0
        /\ Len(requests) = 2
    /\ (FirstDecoded /\ FirstNonceOk
            /\ FirstMessage.iterations = min_iterations(mechanism)) =>
        (hi_runs = 1 /\ Len(requests) = 3)

\* C4 (amended): if the server-first nonce starts with the client nonce and
\* the iteration count is below the policy's minimum, the attempt fails with
\* the weak-iteration error, the salted password is never derived and no
\* client-final request is dispatched; with an iteration count below the
\* minimum the attempt fails before derivation whatever the nonce; a count
\* exactly equal to the minimum is accepted.
C4_WeakIterationsFailBeforeDerivation ==
    /\ (FirstDecoded /\ FirstMessage.iterations < min_iterations(mechanism)) =>
        /\ pc = "Failed"
        /\ hi_runs = 0
        /\ salted_password = nullopt
        /\ Len(requests) = 2
        /\ FirstNonceOk =>
            ThrewAt(89, WeakIterationCount(parse_int(FirstPayload.i)))
    /\ (FirstDecoded /\ FirstNonceOk
            /\ FirstMessage.iterations = min_iterations(mechanism)) =>
        (hi_runs = 1 /\ Len(requests) = 3 /\ throw_line # 89)

C4_Witness ==
    /\ FirstDecoded
    /\ FirstNonceOk
    /\ FirstMessage.iterations = min_iterations(mechanism) - 1
    /\ pc = "Failed"
    /\ throw_line = 89

\* C5: if the decoded server-final message carries an error attribute, the
\* attempt fails with the authentication-failed error whose message is
\* exactly the text the server supplied, and it is not Authenticated.
C5_ServerErrorAttributeFails ==
    (FinalDecoded /\ FinalPayload.keys = <<"e">>) =>
        /\ ThrewAt(120, AuthenticationFailed(FinalPayload.e))
        /\ pc # "Authenticated"

C5_Witness ==
    /\ FinalDecoded
    /\ FinalPayload.keys = <<"e">>
    /\ FinalPayload.e = "other-error"
    /\ pc = "Failed"

\* C6: if the signature carried by the server-final message differs in any
\* way from the signature computed from the salted password and the
\* exchanged messages, the attempt fails with the signature-mismatch error
\* and is not Authenticated.
C6_WrongSignatureFails ==
    (FinalDecoded /\ FinalPayload.keys = <<"v">>
        /\ FinalPayload.v # ExpectedSignature) =>
        /\ ThrewAt(131, ServerSignatureInvalid)
        /\ pc # "Authenticated"

C6_Witness ==
    /\ FinalDecoded
    /\ FinalPayload.keys = <<"v">>
    /\ Len(FinalPayload.v) = Len(ExpectedSignature)
    /\ FinalPayload.v # ExpectedSignature
    /\ pc = "Failed"

\* C7: the client-final request is dispatched only after the server-first
\* response was received and fully validated (error code none, payload
\* decoded, nonce prefix and iteration floor checks passed); at most one
\* request is outstanding at any time and the client-first request precedes
\* the client-final request.
Outstanding == Len(requests) - Len(responses)
IsClientFirstRequest(req) ==
    /\ req.api = "sasl_authenticate"
    /\ "gs2" \in DOMAIN value(req.auth_bytes)
IsClientFinalRequest(req) ==
    /\ req.api = "sasl_authenticate"
    /\ "p" \in DOMAIN value(req.auth_bytes)
C7_StrictSequencing ==
    /\ Outstanding \in {0, 1}
    /\ \A k \in DOMAIN requests :
        IsClientFinalRequest(requests[k]) =>
            /\ k = 3
            /\ IsClientFirstRequest(requests[2])
            /\ FirstDecoded
            /\ FirstNonceOk
            /\ FirstMessage.iterations >= min_iterations(mechanism)

C7_Witness ==
    /\ Len(requests) = 3
    /\ IsClientFinalRequest(requests[3])
    /\ Outstanding = 1

\* C8: an attempt that ends as Authenticated issued exactly three dispatch
\* calls: the handshake request naming the mechanism, then the client-first
\* request, then the client-final request; no attempt issues more than one
\* handshake request or more than two authenticate requests.
Count(api) == Cardinality({k \in DOMAIN requests : requests[k].api = api})
C8_ThreeDispatches ==
    /\ Count("sasl_handshake") <= 1
    /\ Count("sasl_authenticate") <= 2
    /\ pc = "Authenticated" =>
        /\ Len(requests) = 3
        /\ requests[1] = sasl_handshake_request(mechanism)
        /\ IsClientFirstRequest(requests[2])
        /\ IsClientFinalRequest(requests[3])

C8_Witness ==
    /\ pc = "Authenticated"
    /\ Len(requests) = 3

\* C9: the handshake sends exactly one request naming the mechanism; on a
\* non-success error code it fails with the broker id and that code and
\* sends nothing more; on error code none it completes.
HandshakeRejected(code) ==
    [type |-> "broker_error", id |-> <<broker_id>>, code |-> code,
     msg |-> << >>]
C9_HandshakeRejectionTerminal ==
    /\ Len(requests) >= 1 => requests[1] = sasl_handshake_request(mechanism)
    /\ \A k \in DOMAIN requests : requests[k].api = "sasl_handshake" => k = 1
    /\ (HandshakeAnswered /\ responses[1].error_code # none) =>
        /\ ThrewAt(21, HandshakeRejected(responses[1].error_code))
        /\ Len(requests) = 1
    /\ (HandshakeAnswered /\ responses[1].error_code = none) =>
        /\ pc \notin {"Start", "AwaitingHandshake"}
        /\ throw_line \notin {19, 21}

C9_Witness ==
    /\ HandshakeAnswered
    /\ responses[1].error_code = unsupported_sasl_mechanism
    /\ pc = "Failed"

\* C10: an authenticate response with a non-success outer error code fails
\* the attempt with that code and the server's error message (a placeholder
\* if there is none); its payload is not decoded; in the first round nothing
\* is derived and no client-final request is dispatched, in the second round
\* no signature is verified and the attempt is not Authenticated.
ServerRejected(resp) ==
    [type |-> "broker_error", id |-> <<broker_id>>, code |-> resp.error_code,
     msg |-> IF resp.error_message = << >> THEN <<"<no error message>">>
             ELSE resp.error_message]
C10_OuterErrorFailsImmediately ==
    /\ (FirstAnswered /\ responses[2].error_code # none) =>
        /\ ThrewAt(35, ServerRejected(responses[2]))
        /\ decode_runs = 0
        /\ server_first = nullopt
        /\ hi_runs = 0
        /\ Len(requests) = 2
    /\ (FinalAnswered /\ responses[3].error_code # none) =>
        /\ ThrewAt(55, ServerRejected(responses[3]))
        /\ decode_runs = 1
        /\ server_final = nullopt
        /\ verify_runs = 0
        /\ pc # "Authenticated"

C10_Witness ==
    /\ FinalAnswered
    /\ responses[3].error_code = illegal_sasl_state
    /\ responses[3].error_message = nullopt
    /\ pc = "Failed"

\* C11: failure is terminal and the outcome is binary.  An attempt that has
\* failed issues no further dispatch, keeps its exception (the caller gets
\* it) and never becomes Authenticated; an attempt has an exception exactly
\* when it is Failed, and an Authenticated attempt has none; the state only
\* moves forward along Start, AwaitingServerFirst, AwaitingServerFinal,
\* Authenticated | Failed.
Rank(p) ==
    CASE p = "Start" -> 0
      [] p = "AwaitingHandshake" -> 1
      [] p = "HandshakeDone" -> 2
      [] p = "AwaitingServerFirst" -> 3
      [] p = "AwaitingServerFinal" -> 4
      [] p = "Authenticated" -> 5
      [] p = "Failed" -> 5
      [] OTHER -> 6
BinaryOutcome ==
    /\ (pc = "Failed") <=> has_value(error)
    /\ (pc = "Failed") <=> (throw_line # 0)
    /\ Finished <=> (Rank(pc) = 5)
FailureIsFinal ==
    /\ has_value(error) =>
        /\ pc' = "Failed"
        /\ error' = error
        /\ requests' = requests
    /\ pc = "Authenticated" => pc' = "Authenticated" /\ requests' = requests
    /\ Rank(pc') >= Rank(pc)
    /\ (pc' # pc /\ pc' # "Failed") => Rank(pc') = Rank(pc) + 1
C11_FailureTerminalOutcomeBinary ==
    [](BinaryOutcome) /\ [][FailureIsFinal]_vars

C11_Witness ==
    /\ pc = "Failed"
    /\ Len(requests) = 3
    /\ throw_line = 131

\* C12: if a dispatch fails while a round-trip is outstanding the attempt
\* fails with the transport's exception and sends nothing more; if every
\* dispatch eventually returns or fails, every attempt eventually is
\* Authenticated or Failed.
TransportError ==
    [type |-> "dispatch_exception", id |-> << >>, code |-> none, msg |-> << >>]
DispatchFailedAt(k) == Len(responses) >= k /\ ~responses[k].returned
DispatchFailureIsTerminal ==
    /\ DispatchFailedAt(1) => (ThrewAt(19, TransportError) /\ Len(requests) = 1)
    /\ DispatchFailedAt(2) => (ThrewAt(33, TransportError) /\ Len(requests) = 2)
    /\ DispatchFailedAt(3) => (ThrewAt(52, TransportError) /\ Len(requests) = 3)
    /\ \A k \in DOMAIN responses : ~responses[k].returned => k = Len(responses)
C12_DispatchFailureTerminalNoHang ==
    [](DispatchFailureIsTerminal) /\ <>Finished

C12_Witness ==
    /\ DispatchFailedAt(3)
    /\ pc = "Failed"

\* C14: every error an attempt can fail with (handshake rejected, server
\* rejected, malformed message, nonce mismatch, weak iteration count,
\* authentication failed, server signature invalid) carries the identity of
\* the broker, and the server's human-readable message whenever the response
\* that caused it provided one.
LastResponse == responses[Len(responses)]
FailedOnResponse == pc = "Failed" /\ LastResponse.returned
ServerSuppliedMessage ==
    IF LastResponse.error_code = none
          /\ LastResponse.auth_bytes.keys = <<"e">>
          /\ Len(responses) = 3
    THEN <<LastResponse.auth_bytes.e>>
    ELSE LastResponse.error_message
C14_EveryErrorCarriesBrokerAndMessage ==
    FailedOnResponse =>
        /\ value(error).id = <<broker_id>>
        /\ has_value(ServerSuppliedMessage) =>
            value(error).msg = ServerSuppliedMessage

\* C15 as stated: the client-final message built after a validated
\* server-first response has the channel binding "n,,", a proof that was
\* unset at construction, and the nonce client_nonce \o server_nonce, where
\* server_nonce is the nonce field of the decoded server-first message.
ProofOverUnsetProof(cl) ==
    cl.proof = <<RefClientProof(mechanism, password, SentClientFirst,
                    FirstPayload, client_final_wire([cl EXCEPT !.proof = << >>]))>>
C15_Original ==
    has_value(client_final) =>
        /\ value(client_final).channel_binding = "n,,"
        /\ ProofOverUnsetProof(value(client_final))
        /\ value(client_final).nonce = SentNonce \o FirstMessage.nonce

\* C15 (amended): the client-final message built after a validated
\* server-first response has the channel binding "n,,", a proof that was
\* unset at construction, and a nonce equal to the nonce field of the decoded
\* server-first message (which itself starts with the client nonce); this is
\* the nonce the client-final request carries.
C15_ClientFinalEchoesServerNonce ==
    has_value(client_final) =>
        /\ value(client_final).channel_binding = "n,,"
        /\ ProofOverUnsetProof(value(client_final))
        /\ value(client_final).nonce = FirstMessage.nonce
        /\ starts_with(value(client_final).nonce, SentNonce)
        /\ Len(requests) = 3
        /\ SentClientFinal.c = "biws"
        /\ SentClientFinal.r = FirstPayload.r
        /\ SentClientFinal.p = value(client_final).proof

C15_Witness ==
    /\ has_value(client_final)
    /\ Len(requests) = 3
    /\ Len(FirstPayload.r) > Len(SentNonce)

\* C16: both entry points run one state machine.  Where an attempt stands,
\* the line it threw at and the requests it dispatched are one function of
\* the broker's responses and of the results of the policy's operations
\* (the floor comparison, the expected signature); the mechanism enters only
\* through the policy's floor and hash.
ExpectedPosition(floor, expected_signature) ==
    IF Len(responses) = 0
    THEN <<IF Len(requests) = 0 THEN "Start" ELSE "AwaitingHandshake", 0>>
    ELSE IF ~responses[1].returned THEN <<"Failed", 19>>
    ELSE IF responses[1].error_code # none THEN <<"Failed", 21>>
    ELSE IF Len(responses) = 1
    THEN <<IF Len(requests) = 1 THEN "HandshakeDone"
           ELSE "AwaitingServerFirst", 0>>
    ELSE IF ~responses[2].returned THEN <<"Failed", 33>>
    ELSE IF responses[2].error_code # none THEN <<"Failed", 35>>
    ELSE IF ~(FirstPayload.keys = <<"r", "s", "i">> /\ is_numeric(FirstPayload.i))
    THEN <<"Failed", 40>>
    ELSE IF ~FirstNonceOk THEN <<"Failed", 82>>
    ELSE IF parse_int(FirstPayload.i) < floor THEN <<"Failed", 89>>
    ELSE IF Len(responses) = 2 THEN <<"AwaitingServerFinal", 0>>
    ELSE IF ~responses[3].returned THEN <<"Failed", 52>>
    ELSE IF responses[3].error_code # none THEN <<"Failed", 55>>
    ELSE IF FinalPayload.keys = <<"e">> THEN <<"Failed", 120>>
    ELSE IF FinalPayload.keys # <<"v">> THEN <<"Failed", 61>>
    ELSE IF FinalPayload.v # expected_signature THEN <<"Failed", 131>>
    ELSE <<"Authenticated", 0>>
ExpectedDispatches(position) ==
    CASE position = "Start" -> 0
      [] position \in {"AwaitingHandshake", "HandshakeDone"} -> 1
      [] position = "AwaitingServerFirst" -> 2
      [] position \in {"AwaitingServerFinal", "Authenticated"} -> 3
      [] position = "Failed" -> Len(responses)
C16_OneStateMachineForBothPolicies ==
    /\ <<pc, throw_line>> =
          ExpectedPosition(min_iterations(mechanism),
              IF Len(requests) = 3 THEN ExpectedSignature ELSE << >>)
    /\ Len(requests) = ExpectedDispatches(pc)
    /\ \A k \in DOMAIN requests :
          requests[k].api = IF k = 1 THEN "sasl_handshake" ELSE "sasl_authenticate"

C16_Witness ==
    /\ mechanism = "SCRAM-SHA-512"
    /\ pc = "Failed"
    /\ throw_line = 89

\* C17: the auth message the server signature is verified over is the auth
\* message the client proof was computed over (client-first bare,
\* server-first, client-final without proof), although the proof is attached
\* to the client-final message in between: the expected server signature
\* does not depend on the proof field.
WireAuthMessage == RefAuthMessage(SentClientFirst, FirstPayload, SentClientFinal)
ProofSent == value(SentClientFinal.p)
C17_SameAuthMessageForProofAndSignature ==
    verify_runs = 1 =>
        /\ has_value(value(client_final).proof)
        /\ ProofSent.am = WireAuthMessage
        /\ DOMAIN WireAuthMessage.clwp = {"c", "r"}
        /\ (pc = "Authenticated") <=>
              (FinalPayload.v = <<[key |-> [of |-> "Server Key", sp |-> ProofSent.sp],
                                  am |-> ProofSent.am]>>)
        /\ server_signature(server_key(value(salted_password)), client_first,
                            value(server_first), value(client_final))
           = server_signature(server_key(value(salted_password)), client_first,
                            value(server_first),
                            [value(client_final) EXCEPT !.proof = nullopt])

C17_Witness ==
    /\ verify_runs = 1
    /\ pc = "Authenticated"
    /\ has_value(value(client_final).proof)

\* C18: a server-first payload that cannot be decoded (a mandatory r=, s=,
\* i= attribute missing, or an iteration count that is not a number) fails
\* the attempt with the codec's malformed-message exception, nothing is
\* derived and no client-final request is dispatched; a server-final payload
\* that is neither e= nor v= fails it the same way, and the attempt is not
\* Authenticated.
MalformedMessage ==
    [type |-> "scram_exception", id |-> << >>, code |-> none, msg |-> << >>]
FirstUnparsable ==
    /\ FirstAnswered
    /\ responses[2].error_code = none
    /\ \/ FirstPayload.keys # <<"r", "s", "i">>
       \/ FirstPayload.i \notin {"1", "4095", "4096", "4097"}
FinalUnparsable ==
    /\ FinalAnswered
    /\ responses[3].error_code = none
    /\ FinalPayload.keys \notin {<<"e">>, <<"v">>}
C18_MalformedPayloadFails ==
    /\ FirstUnparsable =>
        /\ ThrewAt(40, MalformedMessage)
        /\ server_first = nullopt
        /\ hi_runs = 0
        /\ Len(requests) = 2
    /\ FinalUnparsable =>
        /\ ThrewAt(61, MalformedMessage)
        /\ server_final = nullopt
        /\ verify_runs = 0
        /\ pc # "Authenticated"

C18_Witness ==
    /\ FirstUnparsable
    /\ FirstPayload.keys = <<"r", "s", "i">>
    /\ FirstPayload.i = "x"
    /\ pc = "Failed"

\* C19: the nonce prefix check runs before the iteration floor check: a
\* server-first message whose nonce does not start with the client nonce and
\* whose iteration count is below the minimum always fails with the
\* nonce-mismatch error, never with the weak-iteration error.
BothChecksFail ==
    /\ FirstDecoded
    /\ ~FirstNonceOk
    /\ parse_int(FirstPayload.i) < min_iterations(mechanism)
C19_NonceCheckedBeforeIterations ==
    BothChecksFail =>
        /\ ThrewAt(82, NonceMismatch)
        /\ value(error) # WeakIterationCount(parse_int(FirstPayload.i))
        /\ throw_line # 89

C19_Witness ==
    /\ BothChecksFail
    /\ Len(FirstPayload.r) > Len(SentNonce)
    /\ pc = "Failed"

\* C20: the error attribute takes precedence over the signature: whenever
\* the decoded server-final message has an error, the attempt fails with the
\* authentication-failed error before the server key or the expected
\* signature is computed or compared, whatever the signature field holds.
FinalHasError == FinalDecoded /\ has_value(value(server_final).error)
C20_ErrorAttributeBeforeSignature ==
    /\ (FinalDecoded /\ FinalPayload.keys = <<"e">>) => FinalHasError
    /\ FinalHasError =>
        /\ ThrewAt(120, AuthenticationFailed(value(value(server_final).error)))
        /\ verify_runs = 0
        /\ pc # "Authenticated"

C20_Witness ==
    /\ FinalHasError
    /\ value(server_final).signature # ExpectedSignature
    /\ verify_runs = 0
    /\ pc = "Failed"

\* C13: flows on different connections that run concurrently share no
\* mutable state.  Under every interleaving each flow checks the server
\* nonce against the client nonce it sent itself, uses its own salted
\* password and its own messages, and stands where it would stand had it run
\* alone with the same broker responses.
\* Where a flow that runs alone stands after the responses in f, and the
\* line it threw at: a function of what that flow sent and received.
SoloOutcome(f) ==
    LET rq == f.requests
        rs == f.responses
        first == rs[2].auth_bytes
        final == rs[3].auth_bytes
        sent_first == value(rq[2].auth_bytes)
        sent_final == value(rq[3].auth_bytes)
    IN  IF Len(rs) = 0
        THEN <<IF Len(rq) = 0 THEN "Start" ELSE "AwaitingHandshake", 0>>
        ELSE IF ~rs[1].returned THEN <<"Failed", 19>>
        ELSE IF rs[1].error_code # none THEN <<"Failed", 21>>
        ELSE IF Len(rs) = 1
        THEN <<IF Len(rq) = 1 THEN "HandshakeDone"
               ELSE "AwaitingServerFirst", 0>>
        ELSE IF ~rs[2].returned THEN <<"Failed", 33>>
        ELSE IF rs[2].error_code # none THEN <<"Failed", 35>>
        ELSE IF ~(first.keys = <<"r", "s", "i">> /\ is_numeric(first.i))
        THEN <<"Failed", 40>>
        ELSE IF ~starts_with(first.r, sent_first.bare.r) THEN <<"Failed", 82>>
        ELSE IF parse_int(first.i) < min_iterations(f.mechanism)
        THEN <<"Failed", 89>>
        ELSE IF Len(rs) = 2 THEN <<"AwaitingServerFinal", 0>>
        ELSE IF ~rs[3].returned THEN <<"Failed", 52>>
        ELSE IF rs[3].error_code # none THEN <<"Failed", 55>>
        ELSE IF final.keys = <<"e">> THEN <<"Failed", 120>>
        ELSE IF final.keys # <<"v">> THEN <<"Failed", 61>>
        ELSE IF final.v # RefServerSignature(f.mechanism, f.password,
                              sent_first, first, sent_final)
        THEN <<"Failed", 131>>
        ELSE <<"Authenticated", 0>>
\* a flow that runs alone stands where SoloOutcome says (checked under Spec)
SoloOutcomeIsRunAlone == <<pc, throw_line>> = SoloOutcome(Frame)
\* the flow's nonce, salted password, messages and broker are its own
OwnState(f) ==
    /\ Len(f.requests) >= 2 =>
          value(f.requests[2].auth_bytes).bare.r = f.nonce
    /\ has_value(f.salted_password) =>
          value(f.salted_password) =
              RefSaltedPassword(f.mechanism, f.password, f.responses[2].auth_bytes)
    /\ has_value(f.client_final) =>
          client_final_wire(value(f.client_final)) = value(f.requests[3].auth_bytes)
    /\ (has_value(f.error) /\ has_value(value(f.error).id)) =>
          value(f.error).id = <<f.broker_id>>
    /\ \A k \in DOMAIN f.requests :
          f.requests[k].api = "sasl_handshake" =>
              f.requests[k].mechanism = f.mechanism
Isolated(f) == <<f.pc, f.throw_line>> = SoloOutcome(f) /\ OwnState(f)
C13_ConcurrentFlowsIndependent ==
    /\ Isolated(Frame)
    /\ has_value(parked) => Isolated(value(parked))

\* one flow is Authenticated although the broker answered the other flow
\* with this flow's nonce, which failed the other flow
C13_Witness ==
    /\ has_value(parked)
    /\ pc = "Authenticated"
    /\ value(parked).throw_line = 82
    /\ value(parked).responses[2].auth_bytes.r = nonce
    /\ value(parked).nonce # nonce

====
